---- MODULE Spec2Model ----
(***************************************************************************)
(* Model of salesperformancetrendanalysis.py: the batch pipeline           *)
(*   clean_and_prepare_data -> perform_rfm_analysis ->                     *)
(*   plot_and_save_analysis -> rfm_results.to_csv                          *)
(*                                                                         *)
(* Numbers.  pandas works on floats; the model works on exact integers.    *)
(*   - A raw CustomerID is a float: it is held in tenths (17 is 1.7), and  *)
(*     astype(int) truncates it.                                           *)
(*   - An InvoiceDate is a count of ticks, OneDay ticks to the day, so     *)
(*     that Timedelta.days is a floor and not the identity.                *)
(*   - A missing value is the integer NaN, which no present value equals. *)
(*   - Quantile edges are held multiplied by NumBins, which makes the      *)
(*     linear interpolation of Series.quantile exact.                      *)
(* The pixels of the charts are not modelled: a chart is the name of the   *)
(* file that savefig wrote.  The Description column only feeds a chart     *)
(* and is left out of the rows.                                            *)
(***************************************************************************)
EXTENDS Integers, Sequences, FiniteSets

VARIABLES
    pc,           \* position of the __main__ block
    fileExists,   \* whether Online_Retail.csv can be opened
    csv,          \* the rows pd.read_csv returned: None until the file is read
    clean_data,   \* __main__'s clean_data: None or the cleaned frame
    rfm,          \* perform_rfm_analysis's local rfm after the aggregation
    rfm_results,  \* __main__'s rfm_results: None or the returned table
    outputs,      \* names of the files written so far
    calls,        \* the functions __main__ has invoked, in order
    console,      \* what has been printed (the messages the claims read)
    customer      \* one score row, for the scoring of a single customer

vars == <<pc, fileExists, csv, clean_data, rfm, rfm_results, outputs, calls, console, customer>>

\* a missing value (NaN, a column not yet there): no id, date or score is negative
NaN == -1

\* Python's None, and a DataFrame of the given rows
None == [none |-> TRUE, rows |-> <<>>]
Frame(rows) == [none |-> FALSE, rows |-> rows]

------------------------------------------------------------------------------
(* Bounds of the input files                                               *)

MaxRows == 2
MaxCustomers == 5
MaxDay == 3
MaxQty == 4
MaxInvoices == 2
MaxLines == 2
MaxTxns == 5

(* Program constants                                                       *)

\* pd.Timedelta(days=1), in ticks
OneDay == 2
\* the 5 of pd.qcut(..., 5, ...)
NumBins == 5

------------------------------------------------------------------------------
(* Helpers                                                                 *)

Range(s) == {s[i] : i \in 1..Len(s)}

RECURSIVE SumSeq(_)
SumSeq(s) == IF s = <<>> THEN 0 ELSE s[1] + SumSeq(Tail(s))

SetMax(S) == CHOOSE x \in S : \A y \in S : y <= x

\* the values of xs in ascending order (np.sort inside Series.quantile)
SortedSeq(xs) ==
    [j \in 1..Len(xs) |->
        CHOOSE v \in Range(xs) :
            /\ Cardinality({i \in 1..Len(xs) : xs[i] < v}) < j
            /\ j <= Cardinality({i \in 1..Len(xs) : xs[i] <= v})]

\* the elements of a set of integers as an ascending sequence
SortedSet(S) ==
    [j \in 1..Cardinality(S) |->
        CHOOSE v \in S : Cardinality({w \in S : w < v}) = j - 1]

------------------------------------------------------------------------------
(* The input file: rows of Online_Retail.csv                               *)

RawRow(inv, qty, price, date, cid) ==
    [InvoiceNo |-> inv, Quantity |-> qty, UnitPrice |-> price,
     InvoiceDate |-> date, CustomerID |-> cid]

\* Short files with every kind of row: a missing customer id, a fractional
\* one, a return (-3), a zero quantity, a zero price.  An invoice has one date.
SmallRows ==
    {RawRow(inv, qty, price, (inv - 1) * (OneDay + 1), cid) :
        inv \in 1..2, qty \in {-3, 0, 2}, price \in {0, 3}, cid \in {NaN, 15, 20}}

\* the files of k such rows
SmallFiles(k) == [1..k -> SmallRows]

\* One line per customer, the monetary values a ladder, the days free:
\* odd customers buy at the second tick of their day.
RecencyFile(n, day) ==
    [i \in 1..n |-> RawRow(i, i, 3, OneDay * day[i] + (i % OneDay), 10 * i)]

\* One line per customer, the days a ladder, the quantities free.
MonetaryFile(n, qty) ==
    [i \in 1..n |-> RawRow(i, qty[i], 3, OneDay * i, 10 * i)]

\* Customer i has k[i] invoices of `lines` lines each, the last one on day i;
\* the lines of the other invoices have quantity 0.
FrequencyFile(n, k, lines) ==
    [j \in 1..(n * MaxInvoices * lines) |->
        LET i == ((j - 1) \div (MaxInvoices * lines)) + 1
            t == (((j - 1) \div lines) % MaxInvoices) + 1
        IN  RawRow((i - 1) * MaxInvoices + t,
                   IF t <= k[i] THEN i ELSE 0,
                   3,
                   IF t = 1 THEN OneDay * i ELSE 0,
                   10 * i)]

\* One customer, n transactions (invoices) on n distinct days, transaction t
\* of lines[t] lines; the other lines are returns.
SingleCustomerFile(n, lines) ==
    [j \in 1..(n * MaxLines) |->
        LET t == ((j - 1) \div MaxLines) + 1
            l == ((j - 1) % MaxLines) + 1
        IN  RawRow(t,
                   IF l <= lines[t] THEN t ELSE -3,
                   3,
                   OneDay * (t - 1) + (t % OneDay),
                   10)]

------------------------------------------------------------------------------
(* 1. clean_and_prepare_data                                               *)

\* df.dropna(subset=['CustomerID'])
HasCustomerID(r) == r.CustomerID # NaN

\* .astype(int) of a float held in tenths: truncation
AsInt(tenths) == tenths \div 10

\* mutant: >= in place of >, which keeps the zero quantities and prices
IsValidEntry_NonNegative(r) == r.Quantity >= 0 /\ r.UnitPrice >= 0

\* (df['Quantity'] > 0) & (df['UnitPrice'] > 0)
IsValidEntry(r) == r.Quantity > 0 /\ r.UnitPrice > 0

\* df_cleaned['Quantity'] * df_cleaned['UnitPrice']
Sales(r) == r.Quantity * r.UnitPrice

CleanRow(r) ==
    [InvoiceNo |-> r.InvoiceNo, Quantity |-> r.Quantity, UnitPrice |-> r.UnitPrice,
     InvoiceDate |-> r.InvoiceDate, CustomerID |-> AsInt(r.CustomerID),
     Sales |-> Sales(r), InvoiceMonth |-> NaN]

\* the frame clean_and_prepare_data returns for the rows of a file it could open
CleanFrame(df) ==
    LET withId == SelectSeq(df, HasCustomerID)
        valid == SelectSeq(withId, IsValidEntry)
    IN  [i \in 1..Len(valid) |-> CleanRow(valid[i])]

------------------------------------------------------------------------------
(* 2. perform_rfm_analysis                                                 *)

\* mutant: the snapshot is the last date itself
snapshot_date_NoDayAdded(df) == SetMax({df[i].InvoiceDate : i \in 1..Len(df)})

\* df_cleaned['InvoiceDate'].max() + pd.Timedelta(days=1)
snapshot_date(df) == SetMax({df[i].InvoiceDate : i \in 1..Len(df)}) + OneDay

\* the keys of df_cleaned.groupby('CustomerID'): distinct, ascending
GroupKeys(df) == SortedSet({df[i].CustomerID : i \in 1..Len(df)})

RowsOf(df, c) == {i \in 1..Len(df) : df[i].CustomerID = c}

\* (snapshot_date - x.max()).days: whole days, rounded down
Recency(df, c) ==
    (snapshot_date(df) - SetMax({df[i].InvoiceDate : i \in RowsOf(df, c)})) \div OneDay

\* ('InvoiceNo', 'nunique')
Frequency(df, c) == Cardinality({df[i].InvoiceNo : i \in RowsOf(df, c)})

\* ('Sales', 'sum')
Monetary(df, c) ==
    LET idx == SortedSet(RowsOf(df, c))
    IN  SumSeq([j \in 1..Len(idx) |-> df[idx[j]].Sales])

\* mutant: the index is dropped, and the rows are numbered from 0
Aggregate_IndexDropped(df) ==
    [j \in 1..Len(GroupKeys(df)) |->
        [CustomerID |-> j - 1, Recency |-> Recency(df, GroupKeys(df)[j]),
         Frequency |-> Frequency(df, GroupKeys(df)[j]),
         Monetary |-> Monetary(df, GroupKeys(df)[j])]]

\* the frame after .agg(...).reset_index(): one row per key, in key order
Aggregate(df) ==
    LET keys == GroupKeys(df)
    IN  [j \in 1..Len(keys) |->
            [CustomerID |-> keys[j], Recency |-> Recency(df, keys[j]),
             Frequency |-> Frequency(df, keys[j]), Monetary |-> Monetary(df, keys[j])]]

\* Series.rank(method='first'): ties ranked in order of appearance
rank_first(xs) ==
    [i \in 1..Len(xs) |->
        1 + Cardinality({j \in 1..Len(xs) : xs[j] < xs[i]})
          + Cardinality({j \in 1..(i - 1) : xs[j] = xs[i]})]

\* x.quantile(k / NumBins), linear interpolation, times NumBins; s is sorted
QuantileEdge(s, k) ==
    LET pos == (Len(s) - 1) * k
        j == pos \div NumBins
        r == pos % NumBins
    IN  IF r = 0 THEN NumBins * s[j + 1]
        ELSE NumBins * s[j + 1] + r * (s[j + 2] - s[j + 1])

\* the NumBins + 1 bin edges of pd.qcut(xs, NumBins), times NumBins
QuantileEdges(s) == [k \in 1..(NumBins + 1) |-> QuantileEdge(s, k - 1)]

BinEdges(xs) == QuantileEdges(SortedSeq(xs))

\* duplicates='raise': "Bin edges must be unique"
EdgesCollide(bins) == \E a, b \in 1..Len(bins) : a < b /\ bins[a] = bins[b]

\* _bins_to_cuts: bins.searchsorted(x, side='left'), include_lowest, na_mask
BinOf(bins, x) ==
    LET ids == Cardinality({k \in 1..Len(bins) : bins[k] < NumBins * x})
        id == IF NumBins * x = bins[1] THEN 1 ELSE ids
    IN  IF id = 0 \/ id = Len(bins) THEN NaN ELSE id

Raised == [raised |-> TRUE, values |-> <<>>]

\* the label of bin id, or the missing value
LabelOf(labels, id) == IF id = NaN THEN NaN ELSE labels[id]

\* mutant: colliding edges do not raise
bins_to_cuts_NoRaise(xs, bins, labels) ==
    [raised |-> FALSE,
     values |-> [i \in 1..Len(xs) |-> LabelOf(labels, BinOf(bins, xs[i]))]]

\* _bins_to_cuts(x, bins, labels, include_lowest=True, duplicates='raise')
bins_to_cuts(xs, bins, labels) ==
    IF EdgesCollide(bins)
    THEN Raised
    ELSE [raised |-> FALSE,
          values |-> [i \in 1..Len(xs) |-> LabelOf(labels, BinOf(bins, xs[i]))]]

\* pd.qcut(xs, NumBins, labels=labels): the labels of the values, or the raise
\* (the quantiles of an empty Series are all NaN, and collide)
qcut(xs, labels) ==
    IF Len(xs) = 0
    THEN Raised
    ELSE bins_to_cuts(xs, BinEdges(xs), labels)

\* mutant: the recency labels are not inverted
R_Labels_Ascending == <<1, 2, 3, 4, 5>>

R_Labels == <<5, 4, 3, 2, 1>>
FM_Labels == <<1, 2, 3, 4, 5>>

Column(t, f) == [i \in 1..Len(t) |-> t[i][f]]

\* pd.qcut(rfm['Recency'], 5, labels=[5, 4, 3, 2, 1])
R_Scores(t) == qcut(Column(t, "Recency"), R_Labels)
\* mutant: pd.cut in place of pd.qcut of the ranks, bins of equal width over the
\* frequencies
F_Scores_EqualWidth(t) ==
    IF Len(t) = 0
    THEN Raised
    ELSE [raised |-> FALSE,
          values |->
            [i \in 1..Len(t) |->
                LET lo == 0 - SetMax({0 - t[j].Frequency : j \in 1..Len(t)})
                    hi == SetMax({t[j].Frequency : j \in 1..Len(t)})
                    x == t[i].Frequency
                IN  IF lo = hi THEN (NumBins + 1) \div 2
                    ELSE IF x = lo THEN 1
                    ELSE CHOOSE k \in 1..NumBins :
                            /\ (k - 1) * (hi - lo) < NumBins * (x - lo)
                            /\ NumBins * (x - lo) <= k * (hi - lo)]]

\* pd.qcut(rfm['Frequency'].rank(method='first'), 5, labels=[1, 2, 3, 4, 5])
F_Scores(t) == qcut(rank_first(Column(t, "Frequency")), FM_Labels)
\* pd.qcut(rfm['Monetary'], 5, labels=[1, 2, 3, 4, 5])
M_Scores(t) == qcut(Column(t, "Monetary"), FM_Labels)

\* mutant: the monetary score is left out of the sum
RFM_Total_Score_NoMonetary(r, f, m) == r + f

\* rfm['R_Score'].astype(int) + rfm['F_Score'].astype(int) + rfm['M_Score'].astype(int)
RFM_Total_Score(r, f, m) == r + f + m

\* mutant: > in place of >= at the first threshold
segment_customer_Strict(score) ==
    IF score > 13 THEN "Best Customers"
    ELSE IF score >= 10 THEN "Loyal Customers"
    ELSE IF score >= 6 THEN "Potential/At-Risk"
    ELSE "Lost Customers"

segment_customer(score) ==
    IF score >= 13 THEN "Best Customers"
    ELSE IF score >= 10 THEN "Loyal Customers"
    ELSE IF score >= 6 THEN "Potential/At-Risk"
    ELSE "Lost Customers"

\* .astype(int) of a categorical raises on a missing value
HasNaN(col) == \E i \in 1..Len(col) : col[i] = NaN

\* the three qcut calls on the aggregated frame t
Scores(t) == [R |-> R_Scores(t), F |-> F_Scores(t), M |-> M_Scores(t)]

\* whether lines 59-65 raise, given the outcomes sc of the three qcut calls
RfmRaises(sc) ==
    \/ sc.R.raised
    \/ sc.F.raised
    \/ sc.M.raised
    \/ HasNaN(sc.R.values)
    \/ HasNaN(sc.F.values)
    \/ HasNaN(sc.M.values)

\* the table perform_rfm_analysis returns when it does not raise
ScoredTable(t, sc) ==
    LET R == sc.R.values
        F == sc.F.values
        M == sc.M.values
    IN  [i \in 1..Len(t) |->
            [CustomerID |-> t[i].CustomerID, Recency |-> t[i].Recency,
             Frequency |-> t[i].Frequency, Monetary |-> t[i].Monetary,
             R_Score |-> R[i], F_Score |-> F[i], M_Score |-> M[i],
             RFM_Total_Score |-> RFM_Total_Score(R[i], F[i], M[i]),
             Segment |-> segment_customer(RFM_Total_Score(R[i], F[i], M[i]))]]

------------------------------------------------------------------------------
(* 3. plot_and_save_analysis and the final table                           *)

\* dt.to_period('M'): the days are counted from the first day of a 31-day month
MonthOf(date) == (date \div OneDay) \div 31

\* df_cleaned['InvoiceMonth'] = ...: the column is added to the caller's frame
WithInvoiceMonth(df) ==
    [i \in 1..Len(df) |-> [df[i] EXCEPT !.InvoiceMonth = MonthOf(df[i].InvoiceDate)]]

\* the three plt.savefig calls, in the order the function makes them
ChartFiles == <<"monthly_sales_trend.png", "top_10_products.png", "rfm_segmentation_pie.png">>

\* rfm_results.to_csv('rfm_segmentation_data.csv', index=False)
TableFile == "rfm_segmentation_data.csv"

\* mutant: the charts are saved in the opposite order
ChartsWritten_LastFirst(k) == {ChartFiles[Len(ChartFiles) + 1 - i] : i \in 1..k}

\* the charts on disk once the first k savefig calls have returned
ChartsWritten(k) == {ChartFiles[i] : i \in 1..k}

\* the print("Saved: ...") lines after the first k savefig calls
SavedLines(k) == [i \in 1..k |-> ChartFiles[i]]

------------------------------------------------------------------------------
(* 4. The __main__ block                                                   *)

NoCustomer ==
    [R_Score |-> NaN, F_Score |-> NaN, M_Score |-> NaN,
     RFM_Total_Score |-> NaN, Segment |-> "None"]

Init ==
    /\ pc = "start"
    /\ fileExists \in BOOLEAN
    /\ csv = None
    /\ clean_data = None
    /\ rfm = None
    /\ rfm_results = None
    /\ outputs = {}
    /\ calls = <<>>
    /\ console = <<>>
    /\ customer = NoCustomer

\* mutant: the handler returns an empty frame in place of None
FileNotFound_EmptyFrame ==
    /\ pc = "start"
    /\ ~fileExists
    /\ calls' = Append(calls, "clean_and_prepare_data")
    /\ console' = Append(console, "Error: File not found")
    /\ clean_data' = Frame(<<>>)
    /\ pc' = "cleaned"
    /\ UNCHANGED <<fileExists, csv, rfm, rfm_results, outputs, customer>>

\* except FileNotFoundError: print the error, return None; __main__ then skips
\* everything under `if clean_data is not None`
FileNotFound ==
    /\ pc = "start"
    /\ ~fileExists
    /\ calls' = Append(calls, "clean_and_prepare_data")
    /\ console' = Append(console, "Error: File not found")
    /\ clean_data' = None
    /\ pc' = "done"
    /\ UNCHANGED <<fileExists, csv, rfm, rfm_results, outputs, customer>>

\* pd.read_csv(file_path) and the cleaning of what it read
Read(file) == csv' = Frame(file) /\ clean_data' = Frame(CleanFrame(file))

\* the file opens: clean it and return the frame
ReadAndClean ==
    /\ pc = "start"
    /\ fileExists
    /\ \/ \E k \in 0..MaxRows : \E file \in SmallFiles(k) : Read(file)
       \/ \E n \in 1..MaxCustomers : \E day \in [1..n -> 0..MaxDay] :
            Read(RecencyFile(n, day))
       \/ \E n \in 1..MaxCustomers : \E qty \in [1..n -> 1..MaxQty] :
            Read(MonetaryFile(n, qty))
       \/ \E n \in 1..MaxCustomers : \E k \in [1..n -> 0..MaxInvoices] :
            \E lines \in 1..MaxLines : Read(FrequencyFile(n, k, lines))
       \/ \E n \in 1..MaxTxns : \E lines \in [1..n -> 1..MaxLines] :
            Read(SingleCustomerFile(n, lines))
    /\ calls' = Append(calls, "clean_and_prepare_data")
    /\ console' = Append(console, "Data successfully cleaned")
    /\ pc' = "cleaned"
    /\ UNCHANGED <<fileExists, rfm, rfm_results, outputs, customer>>

clean_and_prepare_data == FileNotFound \/ ReadAndClean

\* an uncaught exception in qcut or astype ends the run; otherwise the table
\* is returned
perform_rfm_analysis ==
    /\ pc = "cleaned"
    /\ calls' = Append(calls, "perform_rfm_analysis")
    /\ \E t \in {Aggregate(clean_data.rows)} : \E sc \in {Scores(t)} :
           /\ rfm' = Frame(t)
           /\ IF RfmRaises(sc)
              THEN /\ rfm_results' = None
                   /\ console' = Append(console, "ValueError")
                   /\ pc' = "crashed"
              ELSE /\ rfm_results' = Frame(ScoredTable(t, sc))
                   /\ console' = Append(console, "Mean RFM Values by Segment")
                   /\ pc' = "analysed"
    /\ UNCHANGED <<fileExists, csv, clean_data, outputs, customer>>

\* k of the three savefig calls return; when k < 3 the next one raises (the
\* file cannot be written) and the run ends there
plot_and_save_analysis ==
    /\ pc = "analysed"
    /\ calls' = Append(calls, "plot_and_save_analysis")
    /\ clean_data' = Frame(WithInvoiceMonth(clean_data.rows))
    /\ \E k \in 0..Len(ChartFiles) :
        /\ outputs' = outputs \cup ChartsWritten(k)
        /\ console' = console \o SavedLines(k)
        /\ pc' = IF k = Len(ChartFiles) THEN "plotted" ELSE "crashed"
    /\ UNCHANGED <<fileExists, csv, rfm, rfm_results, customer>>

\* rfm_results.to_csv(...) either writes the table or raises
to_csv ==
    /\ pc = "plotted"
    /\ calls' = Append(calls, "to_csv")
    /\ \E written \in BOOLEAN :
        IF written
        THEN /\ outputs' = outputs \cup {TableFile}
             /\ console' = console \o <<TableFile, "Project Workflow Complete">>
             /\ pc' = "done"
        ELSE /\ outputs' = outputs
             /\ console' = console
             /\ pc' = "crashed"
    /\ UNCHANGED <<fileExists, csv, clean_data, rfm, rfm_results, customer>>

Next ==
    \/ clean_and_prepare_data
    \/ perform_rfm_analysis
    \/ plot_and_save_analysis
    \/ to_csv

Spec == Init /\ [][Next]_vars

------------------------------------------------------------------------------
(* The scoring of one customer: lines 65 and 78 applied to one score tuple *)

ScoreInit ==
    /\ pc = "score"
    /\ fileExists = TRUE
    /\ csv = None
    /\ clean_data = None
    /\ rfm = None
    /\ rfm_results = None
    /\ outputs = {}
    /\ calls = <<>>
    /\ console = <<>>
    /\ customer \in
        {[R_Score |-> r, F_Score |-> f, M_Score |-> m,
          RFM_Total_Score |-> NaN, Segment |-> "None"] :
            r \in Range(R_Labels), f \in Range(FM_Labels), m \in Range(FM_Labels)}

ScoreCustomer ==
    /\ pc = "score"
    /\ customer' =
        [customer EXCEPT
            !.RFM_Total_Score =
                RFM_Total_Score(customer.R_Score, customer.F_Score, customer.M_Score),
            !.Segment =
                segment_customer(
                    RFM_Total_Score(customer.R_Score, customer.F_Score, customer.M_Score))]
    /\ pc' = "scored"
    /\ UNCHANGED <<fileExists, csv, clean_data, rfm, rfm_results, outputs, calls, console>>

ScoreSpec == ScoreInit /\ [][ScoreCustomer]_vars

------------------------------------------------------------------------------
(* Vocabulary of the properties                                            *)

Invoked(f) == \E i \in 1..Len(calls) : calls[i] = f

Printed(m) == \E i \in 1..Len(console) : console[i] = m

RunEnded == pc \in {"done", "crashed"}

AllOutputs == Range(ChartFiles) \cup {TableFile}

\* the files in the order the run writes them
WriteOrder == ChartFiles \o <<TableFile>>

TableReturned == ~rfm_results.none

Table == rfm_results.rows

CleanedIds == {clean_data.rows[i].CustomerID : i \in 1..Len(clean_data.rows)}

StrictlyIncreasing(bins) == \A k \in 1..(Len(bins) - 1) : bins[k] < bins[k + 1]

IsScore(x) == x \in 1..NumBins

SegmentRank(seg) ==
    CASE seg = "Lost Customers" -> 1
      [] seg = "Potential/At-Risk" -> 2
      [] seg = "Loyal Customers" -> 3
      [] seg = "Best Customers" -> 4
      [] OTHER -> 0

------------------------------------------------------------------------------
(* C1: every record of the frame clean_and_prepare_data returns has a     *)
(* customer id, Quantity > 0, UnitPrice > 0 and Sales = Quantity *        *)
(* UnitPrice, and is a record of the file that has a customer id and a    *)
(* positive Quantity and UnitPrice: no other record survives.             *)
C1_CleanedRecordsValid ==
    ~clean_data.none =>
        \A i \in 1..Len(clean_data.rows) :
            /\ clean_data.rows[i].CustomerID # NaN
            /\ clean_data.rows[i].Quantity > 0
            /\ clean_data.rows[i].UnitPrice > 0
            /\ clean_data.rows[i].Sales =
                   clean_data.rows[i].Quantity * clean_data.rows[i].UnitPrice
            /\ \E j \in 1..Len(csv.rows) :
                /\ csv.rows[j].CustomerID # NaN
                /\ csv.rows[j].Quantity > 0
                /\ csv.rows[j].UnitPrice > 0
                /\ csv.rows[j].InvoiceNo = clean_data.rows[i].InvoiceNo
                /\ csv.rows[j].Quantity = clean_data.rows[i].Quantity
                /\ csv.rows[j].UnitPrice = clean_data.rows[i].UnitPrice

\* a file with a record without customer id and a return, and a record kept
C1_Witness ==
    /\ ~clean_data.none
    /\ Len(clean_data.rows) >= 1
    /\ \E j \in 1..Len(csv.rows) : csv.rows[j].CustomerID = NaN
    /\ \E j \in 1..Len(csv.rows) : csv.rows[j].Quantity <= 0

(* C2: when perform_rfm_analysis returns a table, every customer id of    *)
(* the cleaned data is on exactly one row of it, and every row carries a  *)
(* customer id of the cleaned data.                                       *)
C2_OneRowPerCustomer ==
    TableReturned =>
        /\ \A c \in CleanedIds :
            Cardinality({i \in 1..Len(Table) : Table[i].CustomerID = c}) = 1
        /\ \A i \in 1..Len(Table) : Table[i].CustomerID \in CleanedIds

\* a table for a file in which one customer has several records and another
\* customer lost all of its records to the cleaning
C2_Witness ==
    /\ TableReturned
    /\ \E c \in CleanedIds :
        Cardinality({i \in 1..Len(clean_data.rows) :
                        clean_data.rows[i].CustomerID = c}) >= 2
    /\ \E j \in 1..Len(csv.rows) :
        /\ csv.rows[j].CustomerID # NaN
        /\ AsInt(csv.rows[j].CustomerID) \notin CleanedIds

(* C3: when perform_rfm_analysis returns a table, on every row R_Score,   *)
(* F_Score and M_Score are integers in 1..5 and RFM_Total_Score is their  *)
(* sum, so it is in 3..15.                                                *)
C3_ScoresInRange ==
    TableReturned =>
        \A i \in 1..Len(Table) :
            /\ Table[i].R_Score \in 1..5
            /\ Table[i].F_Score \in 1..5
            /\ Table[i].M_Score \in 1..5
            /\ Table[i].RFM_Total_Score =
                   Table[i].R_Score + Table[i].F_Score + Table[i].M_Score
            /\ Table[i].RFM_Total_Score \in 3..15

\* a table with both ends of the range on it
C3_Witness ==
    /\ TableReturned
    /\ \E i \in 1..Len(Table) : Table[i].RFM_Total_Score = 15
    /\ \E i \in 1..Len(Table) : Table[i].RFM_Total_Score = 3

(* C4: for a total score s in 3..15 the segment is 'Best Customers' iff   *)
(* s >= 13, 'Loyal Customers' iff 10 <= s <= 12, 'Potential/At-Risk' iff  *)
(* 6 <= s <= 9 and 'Lost Customers' iff s < 6; no lower total score gets  *)
(* a higher-ranked segment.                                               *)
C4_SegmentThresholds ==
    pc = "scored" =>
        /\ customer.RFM_Total_Score \in 3..15
        /\ (customer.Segment = "Best Customers") <=> (customer.RFM_Total_Score >= 13)
        /\ (customer.Segment = "Loyal Customers") <=>
               (customer.RFM_Total_Score >= 10 /\ customer.RFM_Total_Score <= 12)
        /\ (customer.Segment = "Potential/At-Risk") <=>
               (customer.RFM_Total_Score >= 6 /\ customer.RFM_Total_Score <= 9)
        /\ (customer.Segment = "Lost Customers") <=> (customer.RFM_Total_Score < 6)
        /\ \A s \in 3..customer.RFM_Total_Score :
               SegmentRank(segment_customer(s)) <= SegmentRank(customer.Segment)

\* the lowest score of the best segment
C4_Witness ==
    /\ pc = "scored"
    /\ customer.RFM_Total_Score = 13
    /\ customer.Segment = "Best Customers"

(* C5: when the input file is absent, clean_and_prepare_data reports the  *)
(* error and returns None, and the run ends there: neither                *)
(* perform_rfm_analysis nor plot_and_save_analysis is invoked and no      *)
(* output is written.                                                     *)
C5_MissingFileEndsRun ==
    (~fileExists /\ pc # "start") =>
        /\ Printed("Error: File not found")
        /\ clean_data.none
        /\ calls = <<"clean_and_prepare_data">>
        /\ rfm_results.none
        /\ outputs = {}
        /\ pc = "done"
        /\ ~ENABLED Next

C5_Witness == ~fileExists /\ pc = "done" /\ Invoked("clean_and_prepare_data")

\* the scenario: one customer, five invoices on five distinct days
SingleCustomerFiveDays ==
    /\ ~clean_data.none
    /\ Cardinality(CleanedIds) = 1
    /\ Cardinality({clean_data.rows[i].InvoiceNo : i \in 1..Len(clean_data.rows)}) = 5
    /\ Cardinality({clean_data.rows[i].InvoiceDate \div OneDay :
                        i \in 1..Len(clean_data.rows)}) = 5

TotalSales == SumSeq([i \in 1..Len(clean_data.rows) |-> clean_data.rows[i].Sales])

(* C6, as the spec states it: for a single customer with five             *)
(* transactions on five distinct days perform_rfm_analysis returns one    *)
(* row, with recency counted from the day after the last date (1),        *)
(* frequency the number of distinct invoices, monetary the sum of the     *)
(* line revenues and the segment of its total score.                      *)
C6_Original ==
    (SingleCustomerFiveDays /\ Invoked("perform_rfm_analysis")) =>
        /\ TableReturned
        /\ Len(Table) = 1
        /\ Table[1].Recency = 1
        /\ Table[1].Frequency = 5
        /\ Table[1].Monetary = TotalSales
        /\ Table[1].Segment = segment_customer(Table[1].RFM_Total_Score)

(* C6, amended: for that dataset perform_rfm_analysis aggregates one row, *)
(* with recency counted from the day after the last date (1), frequency   *)
(* the number of distinct invoices and monetary the sum of the line       *)
(* revenues, and then raises in the quintile binning: it returns no       *)
(* table, no segment is assigned and nothing is written.                  *)
C6_SingleCustomerRaises ==
    (SingleCustomerFiveDays /\ Invoked("perform_rfm_analysis")) =>
        /\ ~rfm.none
        /\ Len(rfm.rows) = 1
        /\ rfm.rows[1].CustomerID \in CleanedIds
        /\ rfm.rows[1].Recency = 1
        /\ rfm.rows[1].Frequency = 5
        /\ rfm.rows[1].Monetary = TotalSales
        /\ rfm_results.none
        /\ pc = "crashed"
        /\ outputs = {}

\* the scenario, with more lines than invoices, after the call
C6_Witness ==
    /\ SingleCustomerFiveDays
    /\ Invoked("perform_rfm_analysis")
    /\ Len(clean_data.rows) > 5
    /\ pc = "crashed"

(* C7: once perform_rfm_analysis has run, either it raised (no table is   *)
(* returned and the run ended there), or each of Recency, Frequency (by   *)
(* rank) and Monetary was cut at six strictly increasing edges, 5 bins,   *)
(* and every customer carries a label 1..5 in each dimension.             *)
C7_FiveBinsOrRaise ==
    Invoked("perform_rfm_analysis") =>
        \/ /\ rfm_results.none
           /\ pc = "crashed"
           /\ Printed("ValueError")
        \/ /\ TableReturned
           /\ Len(BinEdges(Column(Table, "Recency"))) = NumBins + 1
           /\ StrictlyIncreasing(BinEdges(Column(Table, "Recency")))
           /\ StrictlyIncreasing(BinEdges(rank_first(Column(Table, "Frequency"))))
           /\ StrictlyIncreasing(BinEdges(Column(Table, "Monetary")))
           /\ \A i \in 1..Len(Table) :
               /\ IsScore(Table[i].R_Score)
               /\ IsScore(Table[i].F_Score)
               /\ IsScore(Table[i].M_Score)

\* a uniform population: several customers, one recency, and the raise
C7_Witness ==
    /\ Invoked("perform_rfm_analysis")
    /\ ~rfm.none
    /\ Len(rfm.rows) >= 3
    /\ \A i \in 1..Len(rfm.rows) : rfm.rows[i].Recency = rfm.rows[1].Recency
    /\ rfm_results.none
    /\ pc = "crashed"

FScoresUsed == {Table[i].F_Score : i \in 1..Len(Table)}

(* C8, as the spec states it: whenever a table is returned, each F_Score  *)
(* 1..5 is assigned to at least one customer.                             *)
C8_Original == TableReturned => FScoresUsed = 1..5

(* C8, amended: whenever a table of at least 5 customers is returned,     *)
(* each F_Score 1..5 is assigned to at least one customer, however many   *)
(* customers share a frequency.                                           *)
C8_FiveFrequencyBins == (TableReturned /\ Len(Table) >= 5) => FScoresUsed = 1..5

\* five customers or more, at least three of them with one frequency
C8_Witness ==
    /\ TableReturned
    /\ Len(Table) >= 5
    /\ \E i \in 1..Len(Table) :
        Cardinality({j \in 1..Len(Table) : Table[j].Frequency = Table[i].Frequency}) >= 3
    /\ FScoresUsed = 1..5

(* C9, as the spec states it: when the run ends, whatever stage failed,   *)
(* none of the four output files is written or all four are.              *)
C9_Original == RunEnded => (outputs = {} \/ outputs = AllOutputs)

(* C9, amended: when the run ends, the files written are the first k, for *)
(* some k in 0..4, of monthly trend chart, top-10 chart, pie chart, RFM   *)
(* table: none when the loading or the RFM scoring failed, all four when  *)
(* no stage failed, and those written before it when a write failed.      *)
C9_OutputsArePrefix ==
    RunEnded =>
        /\ \E k \in 0..Len(WriteOrder) : outputs = {WriteOrder[i] : i \in 1..k}
        /\ ~Invoked("plot_and_save_analysis") => outputs = {}
        /\ pc = "done" =>
            IF fileExists THEN outputs = AllOutputs ELSE outputs = {}

\* the run ended by the failure of the third chart write
C9_Witness ==
    /\ pc = "crashed"
    /\ outputs = {ChartFiles[1], ChartFiles[2]}

RecencyValues == {Table[i].Recency : i \in 1..Len(Table)}

(* C10: when a table is returned, a customer with a lower Recency never   *)
(* has a lower R_Score, the customers of minimum Recency have R_Score 5   *)
(* and those of maximum Recency R_Score 1; a customer with a lower        *)
(* Monetary never has a higher M_Score.                                   *)
C10_RecencyInverted ==
    TableReturned =>
        \A a \in 1..Len(Table) :
            /\ \A b \in 1..Len(Table) :
                /\ Table[a].Recency < Table[b].Recency =>
                       Table[a].R_Score >= Table[b].R_Score
                /\ Table[a].Monetary < Table[b].Monetary =>
                       Table[a].M_Score <= Table[b].M_Score
            /\ (\A v \in RecencyValues : Table[a].Recency <= v) => Table[a].R_Score = 5
            /\ (\A v \in RecencyValues : Table[a].Recency >= v) => Table[a].R_Score = 1

\* three customers in recency order with falling scores
C10_Witness ==
    /\ TableReturned
    /\ \E a, b, c \in 1..Len(Table) :
        /\ Table[a].Recency < Table[b].Recency
        /\ Table[b].Recency < Table[c].Recency
        /\ Table[a].R_Score > Table[b].R_Score
        /\ Table[b].R_Score > Table[c].R_Score

====
